---------------------------- MODULE Spec2Model ----------------------------
(***************************************************************************)
(* Model of the OneDrive file system provider (vscode-onedrive-browser).   *)
(*                                                                         *)
(* The program runs on the JavaScript event loop.  One action of this      *)
(* module is one turn of that loop: a call of the host into the provider   *)
(* (watch, dispose), the completion of a remote call, the completion of    *)
(* the token acquisition, or the expiry of the poll timer, together with   *)
(* every promise continuation that runs before the turn ends.              *)
(*                                                                         *)
(* Strings that the code cuts at "/" are modelled as the sequence of their *)
(* segments: "/drive/root:/Docs" is <<"", "drive", "root:", "Docs">>, the  *)
(* empty string is <<"">>, and s + "/" + t is s \o t.                      *)
(***************************************************************************)
EXTENDS Integers, Sequences, FiniteSets, TLC

(***************************************************************************)
(* Bounds of the model.                                                    *)
(***************************************************************************)
MaxHandles == 3     \* watch() calls that return a handle
MaxLoops   == 2     \* polling loops started over a run
MaxRounds  == 2     \* poll rounds of one loop
MaxItems   == 3     \* items of a snapshot whose paths are resolved call by call
MaxOps     == 1     \* file system operations of the host in progress at a time

HandleIds == 1..MaxHandles
LoopIds   == 1..MaxLoops
OpIds     == 1..MaxOps

(***************************************************************************)
(* Program constants.                                                      *)
(***************************************************************************)
scheme          == "onedrive"
driveRootPrefix == <<"", "drive", "root:">>

Schemes == {scheme, "file"}
Drives  == {"D1", "D2"}
Uris    == [scheme : Schemes, authority : Drives]

(***************************************************************************)
(* Drive items (Children.DriveItem) as the delta feed returns them.        *)
(***************************************************************************)
NoParentReference == [present |-> FALSE, id |-> "", hasPath |-> FALSE, path |-> <<>>]
ParentById(id)    == [present |-> TRUE, id |-> id, hasPath |-> FALSE, path |-> <<>>]
ParentByPath(id, path) == [present |-> TRUE, id |-> id, hasPath |-> TRUE, path |-> path]

DriveItem(id, name, root, deleted, created, parentReference) ==
    [id |-> id, name |-> name, root |-> root, deleted |-> deleted,
     createdDateTime |-> created, parentReference |-> parentReference]

ItemRoot     == DriveItem("R", "root", TRUE, FALSE, 1, NoParentReference)
ItemDocs     == DriveItem("F1", "Docs", FALSE, FALSE, 1, ParentByPath("R", driveRootPrefix))
ItemA        == DriveItem("I1", "a.txt", FALSE, FALSE, 1,
                          ParentByPath("F1", driveRootPrefix \o <<"Docs">>))
ItemADeleted == DriveItem("I1", "a.txt", FALSE, TRUE, 1, ParentById("F1"))
ItemBNew     == DriveItem("I2", "b.txt", FALSE, FALSE, 3, ParentById("F1"))

(***************************************************************************)
(* What the remote service may answer to a delta request: a feed (the      *)
(* sequence of its pages' entries), the Date header of a response (0: the  *)
(* response has none), and the delta link the last page ends with.         *)
(* SmallRemote serves the runs that interleave watch() and dispose();      *)
(* PlainRemote, with one feed of one page, serves the same runs where only *)
(* their progress is looked at; RichRemote serves the runs of one loop     *)
(* that look at what a round emits.                                        *)
(***************************************************************************)
NextLink == "n1"
NoLink   == ""

SmallRemote ==
    [feeds |-> { << <<>> >>, << <<ItemDocs>>, <<ItemBNew>> >> },
     dates |-> {2},
     links |-> {"c1"}]

PlainRemote ==
    [feeds |-> { << <<ItemDocs>> >> },
     dates |-> {2},
     links |-> {"c1"}]

RichRemote ==
    [feeds |-> { << <<>> >>,
                 << <<ItemRoot, ItemDocs, ItemA>> >>,
                 << <<ItemADeleted>> >>,
                 << <<ItemDocs>>, <<ItemBNew>> >>,
                 << <<ItemA, ItemDocs>>, <<ItemADeleted>> >>,
                 << <<ItemRoot, ItemDocs, ItemBNew>> >> },
     dates |-> {0, 2, 4},
     links |-> {"c1", "c2"}]

\* Date.now(), when a response carries no Date header
Clock == {2, 4}


(***************************************************************************)
(* DeltaResultInteractor: the snapshot of one materialized delta feed.     *)
(* `items` is the Map id -> item in its iteration order (the order of the  *)
(* first insertion of each id, holding the value of the last one).         *)
(***************************************************************************)
NoResults == [valid |-> FALSE, items |-> <<>>, lastUpdated |-> 0, next |-> NoLink]

MapSet(items, item) ==
    IF \E i \in 1..Len(items) : items[i].id = item.id
    THEN [i \in 1..Len(items) |-> IF items[i].id = item.id THEN item ELSE items[i]]
    ELSE Append(items, item)

RECURSIVE MapOfValue(_, _)
MapOfValue(value, n) ==
    IF n = 0 THEN <<>> ELSE MapSet(MapOfValue(value, n - 1), value[n])

DeltaResultInteractor(res, dateHeader, now) ==
    [valid       |-> TRUE,
     items       |-> MapOfValue(res.value, Len(res.value)),
     lastUpdated |-> IF dateHeader # 0 THEN dateHeader ELSE now,
     next        |-> res.deltaLink]

MapHas(results, id) == \E i \in 1..Len(results.items) : results.items[i].id = id
MapGet(results, id) ==
    results.items[CHOOSE i \in 1..Len(results.items) : results.items[i].id = id]

isNew(results, item) == item.createdDateTime > results.lastUpdated

\* a resolution that keeps the parent path as the remote gave it
SliceAfterPrefix_Unsliced(path) == path

\* path.slice(driveRootPrefix.length + 1), for a path that starts with the prefix
SliceAfterPrefix(path) == SubSeq(path, Len(driveRootPrefix) + 1, Len(path))

RECURSIVE getPathForItem(_, _)
getPathForItem(results, item) ==
    IF item.root THEN <<"">>
    ELSE IF ~item.parentReference.present THEN <<item.name>>
    ELSE IF item.parentReference.hasPath /\ item.parentReference.path = driveRootPrefix
         THEN <<item.name>>
    ELSE IF item.parentReference.hasPath
         THEN SliceAfterPrefix(item.parentReference.path) \o <<item.name>>
    ELSE IF MapHas(results, item.parentReference.id)
         THEN getPathForItem(results, MapGet(results, item.parentReference.id))
                \o <<item.name>>
         ELSE <<item.name>>

(***************************************************************************)
(* The classification of one entry of a poll round (OneDriveClient.watch). *)
(* `new Date(x)` is an object, and every object is truthy.                 *)
(***************************************************************************)
DateObjectIsTruthy(createdDateTime) == TRUE

ChangeOf(next, value) ==
    LET path == getPathForItem(next, value)
    IN  IF value.deleted THEN [type |-> "Deleted", path |-> path]
        ELSE IF DateObjectIsTruthy(value.createdDateTime)
             THEN [type |-> "Created", path |-> path]
             ELSE [type |-> "Changed", path |-> path]

ChangesOf(next) == [i \in 1..Len(next.items) |-> ChangeOf(next, next.items[i])]

\* what the provider hands to changeEmitter.fire for one batch of the loop
FileChangeEvents(driveId, changes) ==
    [i \in 1..Len(changes) |->
        [type |-> changes[i].type,
         uri  |-> [scheme |-> scheme, authority |-> driveId,
                   path |-> <<"">> \o changes[i].path]]]

(***************************************************************************)
(* The file system operations of the provider: the uris the host passes,   *)
(* the remote calls of OneDriveClient, the errors, and the record of one   *)
(* operation in progress.                                                  *)
(***************************************************************************)
FsUri(sch, path) == [scheme |-> sch, authority |-> "D1", path |-> path]
NoUri      == [scheme |-> "", authority |-> "", path |-> <<>>]
UriDocs    == FsUri(scheme, <<"", "Docs">>)
UriB       == FsUri(scheme, <<"", "Gone", "b.txt">>)
UriForeign == FsUri("file", <<"", "Docs", "a.txt">>)
UriNew     == FsUri(scheme, <<"", "new.txt">>)
FsUris     == {UriDocs, UriB, UriForeign}
\* where rename and copy are asked to put the item
Destinations == {UriNew, UriB, UriForeign}

\* uri.path.replace(/^\/+/, '')
RECURSIVE StripLeadingSlashes(_)
StripLeadingSlashes(path) ==
    IF Len(path) > 1 /\ path[1] = "" THEN StripLeadingSlashes(Tail(path)) ELSE path

\* parseUri(uri).path
ParsedPath(uri) == StripLeadingSlashes(uri.path)

\* uri.with({ path: uri.path.slice(0, uri.path.lastIndexOf('/')) })
parentUri(uri) == [uri EXCEPT !.path = SubSeq(@, 1, Len(@) - 1)]

\* uri.path.slice(uri.path.lastIndexOf('/') + 1)
basename(uri) == uri.path[Len(uri.path)]

\* the items of the remote drive when the provider is constructed, by path
InitStore == { <<"">>, <<"Docs">>, <<"Docs", "a.txt">> }

\* the id of the item the remote holds at a path
IdOf(path) ==
    CASE path = <<"">> -> "R"
      [] path = <<"Docs">> -> "F1"
      [] path = <<"Docs", "a.txt">> -> "I1"
      [] OTHER -> ""

\* what a folder's children listing may be on the remote, as pages
ChildEntry(name, folder) == [name |-> name, folder |-> folder]
ChildrenFeeds ==
    { << <<ChildEntry("a.txt", FALSE)>> >>,
      << <<ChildEntry("a.txt", FALSE)>>, <<ChildEntry("sub", TRUE)>> >> }

\* a remote call of OneDriveClient
NoCall == [name |-> "", driveId |-> "", target |-> <<>>, parentId |-> "", newName |-> ""]
ByPath(name, driveId, path) ==
    [name |-> name, driveId |-> driveId, target |-> path, parentId |-> "", newName |-> ""]
ById(name, driveId, itemId, parentId, newName) ==
    [name |-> name, driveId |-> driveId, target |-> <<itemId>>, parentId |-> parentId,
     newName |-> newName]

\* the errors an operation may end with
NoError == [type |-> "", status |-> 0, uri |-> NoUri, call |-> NoCall]
ResponseError(status, call) ==
    [type |-> "ResponseError", status |-> status, uri |-> NoUri, call |-> call]
FileNotFound(uri) == [type |-> "FileNotFound", status |-> 0, uri |-> uri, call |-> NoCall]
UnsupportedScheme(uri) == [type |-> "Error", status |-> 0, uri |-> uri, call |-> NoCall]
SessionError == [type |-> "SessionError", status |-> 0, uri |-> NoUri, call |-> NoCall]

\* ResponseError.is(e, statusCode)
ResponseErrorIs(e, statusCode) == e.type = "ResponseError" /\ e.status = statusCode

\* a catch that translates every error
MapNotFound_Always(e, uri) == FileNotFound(uri)

\* `if (ResponseError.is(e, 404)) throw FileNotFound(uri); else throw e;`
MapNotFound(e, uri) == IF ResponseErrorIs(e, 404) THEN FileNotFound(uri) ELSE e

\* One operation: its kind and arguments; per async part ("item": the id
\* resolution of the uri, "parent": the id resolution of a parent uri,
\* "final": the call the operation is about) whether it waits for the token
\* ("session"), has its remote call in flight ("remote"), is "done" or
\* "failed"; the ids resolved; the remote calls issued, in order; the
\* children listing the remote holds (once asked); the promise returned.
Kinds == {"stat", "readDirectory", "createDirectory", "readFile", "writeFile",
          "delete", "rename", "copy"}
Roles == {"item", "parent", "final"}
Pending == [state |-> "pending", value |-> <<>>, error |-> NoError]
Resolved(value) == [state |-> "resolved", value |-> value, error |-> NoError]
Rejected(e) == [state |-> "rejected", value |-> <<>>, error |-> e]
NoOp ==
    [kind |-> "none", uri |-> NoUri, to |-> NoUri,
     task |-> [r \in Roles |-> "none"],
     ids |-> [r \in {"item", "parent"} |-> ""],
     issued |-> <<>>, replies |-> <<>>, listing |-> <<>>, outcome |-> Pending]

(***************************************************************************)
(* State.                                                                  *)
(***************************************************************************)
VARIABLES
    watcher,      \* OneDriveFileSystemProvider.watcher: {count, cts} or undefined
    handles,      \* the disposables watch() returned: each closure's `disposed`
    session,      \* ClientProvider.session: the cached promise of the token
    requests,     \* calls of vscode.authentication.getSession made so far
    ops,          \* per operation of the host in progress: its async code and promise
    store,        \* the remote drive: the paths of the items it holds
    unhandled,    \* errors of promises that were rejected with nobody awaiting them
    remote,       \* the remote service: the answers it may give
    pc,           \* per polling loop: where its async code is suspended
    cancelled,    \* per loop: cts.token.isCancellationRequested
    drive,        \* per loop: the driveId it polls
    results,      \* per loop: `results`, the snapshot of the previous round
    response,     \* per loop: loadDelta's `response`, the pages merged so far
    currentDate,  \* per loop: loadDelta's `currentDate` (0: no Date header)
    pages,        \* per loop: pages received by the loadDelta in progress
    inflight,     \* per loop: the route of the remote call in flight
    received,     \* per loop: the pages the remote returned to its last loadDelta
    fired,        \* per loop: batches its for-await has handed to changeEmitter.fire
    lastFire,     \* the last batch handed to changeEmitter.fire
    sleeps,       \* per loop: interval sleeps ended by the timer so far
    exit,         \* per loop: the statement at which its generator ended
    walk          \* the `[...next].map(getPathForItem)` in progress, call by call

providerVars == <<watcher, handles, session, requests, remote>>
fsVars       == <<ops, store, unhandled>>
loopVars     == <<pc, cancelled, drive, results, response, currentDate, pages, inflight,
                  received>>
observedVars == <<fired, lastFire, sleeps, exit>>
vars         == <<providerVars, fsVars, loopVars, observedVars, walk>>

NoWatcher  == [present |-> FALSE, count |-> 0, cts |-> 0]
NoResponse == [value |-> <<>>, nextLink |-> NoLink, deltaLink |-> NoLink]
NoRoute    == <<>>
NoFire     == [loop |-> 0, events |-> <<>>]
NoPages    == <<>>
NoWalk     == [pc |-> "none", results |-> NoResults, index |-> 0, at |-> 0,
               names |-> <<>>, lookups |-> 0, changes |-> <<>>]

Terminal == {"STOPPED", "FAILED"}
Started(l) == pc[l] # "idle"

\* the generator of loop l returns or throws, and with it the for-await of
\* the provider ends: the frames of both, with `results` and `driveId`, go
Ends(l, how, where) ==
    /\ pc' = [pc EXCEPT ![l] = how]
    /\ exit' = [exit EXCEPT ![l] = where]
    /\ results' = [results EXCEPT ![l] = NoResults]
    /\ drive' = [drive EXCEPT ![l] = ""]
    /\ sleeps' = [sleeps EXCEPT ![l] = 0]
    /\ fired' = [fired EXCEPT ![l] = 0]

InitWith(service) ==
    /\ remote = service
    /\ watcher = NoWatcher
    /\ handles = <<>>
    /\ session = "unset"
    /\ requests = 0
    /\ ops = [o \in OpIds |-> NoOp]
    /\ store = InitStore
    /\ unhandled = {}
    /\ pc = [l \in LoopIds |-> "idle"]
    /\ cancelled = [l \in LoopIds |-> FALSE]
    /\ drive = [l \in LoopIds |-> ""]
    /\ results = [l \in LoopIds |-> NoResults]
    /\ response = [l \in LoopIds |-> NoResponse]
    /\ currentDate = [l \in LoopIds |-> 0]
    /\ pages = [l \in LoopIds |-> 0]
    /\ inflight = [l \in LoopIds |-> NoRoute]
    /\ received = [l \in LoopIds |-> NoPages]
    /\ fired = [l \in LoopIds |-> 0]
    /\ lastFire = NoFire
    /\ sleeps = [l \in LoopIds |-> 0]
    /\ exit = [l \in LoopIds |-> ""]

Init == InitWith(SmallRemote) /\ walk = NoWalk

(***************************************************************************)
(* OneDriveFileSystemProvider.watch and the handle it returns.             *)
(***************************************************************************)
\* parseUri: throws for a uri of another scheme
parseUriThrows(uri) == uri.scheme # scheme

\* a provider that never finds its watcher record
WatcherExists_Never == FALSE

\* a provider that takes a watcher whose loop has ended for none
WatcherExists_WhileLoopRuns == watcher.present /\ pc[watcher.cts] \notin {"STOPPED", "FAILED"}

\* `if (this.watcher)`
WatcherExists == watcher.present

\* a loop that resumes at the cursor an earlier loop retained
BaselineRoute_Resumed(l, driveId) ==
    IF \E k \in LoopIds : k < l /\ results[k].valid
    THEN <<results[CHOOSE k \in LoopIds : k < l /\ results[k].valid].next>>
    ELSE <<"drives", driveId, "items", "root", "delta">>

\* the route of the first loadDelta of a loop: the full feed, no cursor
BaselineRoute(l, driveId) == <<"drives", driveId, "items", "root", "delta">>

\* a ClientProvider that asks for the token on every demand
getSession_Uncached == "pending"

\* ClientProvider.getSession: the token is requested unless a promise is cached
getSession == IF session = "unset" THEN "pending" ELSE session

\* the calls of vscode.authentication.getSession one getSession() makes
Requested == IF getSession # session THEN 1 ELSE 0

\* the loop created by watch(): demandForFs().then(client => for await ...),
\* run as far as this turn takes it
StartLoop(l, driveId) ==
    /\ session' = getSession
    /\ IF getSession = "rejected"
       THEN Ends(l, "FAILED", "throw")
       ELSE /\ pc' = [pc EXCEPT ![l] = IF getSession = "resolved" THEN "baseline"
                                                                 ELSE "demand"]
            /\ drive' = [drive EXCEPT ![l] = driveId]
            /\ UNCHANGED <<exit, results, sleeps, fired>>
    /\ inflight' = [inflight EXCEPT ![l] = IF getSession = "resolved"
                                           THEN BaselineRoute(l, driveId)
                                           ELSE NoRoute]
    /\ requests' = requests + Requested
    /\ UNCHANGED <<cancelled, response, currentDate, pages, received>>

watch(uri) ==
    /\ Len(handles) < MaxHandles
    /\ IF WatcherExists
       THEN /\ watcher' = [watcher EXCEPT !.count = @ + 1]
            /\ handles' = Append(handles, FALSE)
            /\ UNCHANGED <<session, requests, loopVars, exit, sleeps, fired>>
       ELSE IF parseUriThrows(uri)
       THEN UNCHANGED <<watcher, handles, session, requests, loopVars, exit, sleeps, fired>>
       ELSE \E l \in LoopIds :
            /\ pc[l] = "idle"
            /\ \A k \in LoopIds : k < l => pc[k] # "idle"
            /\ StartLoop(l, uri.authority)
            /\ watcher' = [present |-> TRUE, count |-> 1, cts |-> l]
            /\ handles' = Append(handles, FALSE)
    /\ UNCHANGED <<remote, lastFire, fsVars, walk>>

\* a handle that does not remember that it was disposed
LastRelease_Forgetful(h) == watcher.present /\ watcher.count - 1 = 0

\* `!disposed && this.watcher && --this.watcher.count === 0`
LastRelease(h) == ~handles[h] /\ watcher.present /\ watcher.count - 1 = 0

\* a sleep that registers no listener on the token
SleepListens_Never(l) == FALSE

\* the listener the sleeping loop registered on its token resolves the sleep,
\* and the loop returns at the check that follows the sleep
SleepListens(l) == pc[l] = "sleep"

\* cts.cancel()
cancel(l) ==
    /\ cancelled' = [cancelled EXCEPT ![l] = TRUE]
    /\ IF SleepListens(l)
       THEN /\ Ends(l, "STOPPED", "after sleep")
            /\ received' = [received EXCEPT ![l] = NoPages]
       ELSE UNCHANGED <<pc, exit, results, drive, sleeps, fired, received>>

dispose(h) ==
    /\ h \in 1..Len(handles)
    /\ IF LastRelease(h)
       THEN /\ cancel(watcher.cts)
            /\ watcher' = NoWatcher
       ELSE /\ watcher' = IF ~handles[h] /\ watcher.present
                          THEN [watcher EXCEPT !.count = @ - 1]
                          ELSE watcher
            /\ UNCHANGED <<pc, cancelled, exit, results, drive, sleeps, fired, received>>
    /\ handles' = [handles EXCEPT ![h] = TRUE]
    /\ UNCHANGED <<session, requests, remote, response, currentDate, pages, inflight>>
    /\ UNCHANGED <<lastFire, fsVars, walk>>

(***************************************************************************)
(* The file system operations: stat, readDirectory, createDirectory,       *)
(* readFile, writeFile, delete, rename and copy, with getItemIdForPath.    *)
(***************************************************************************)
\* a promise settles once
Resolve(op, value) ==
    IF op.outcome.state = "pending" THEN [op EXCEPT !.outcome = Resolved(value)] ELSE op
Reject(op, e) ==
    IF op.outcome.state = "pending" THEN [op EXCEPT !.outcome = Rejected(e)] ELSE op

\* the uri a part of an operation works on
UriOfRole(op, r) ==
    IF r = "parent"
    THEN parentUri(IF op.kind = "createDirectory" THEN op.uri ELSE op.to)
    ELSE op.uri

\* the remote call a part of an operation makes
CallOf(op, r) ==
    LET driveId == op.uri.authority
    IN  IF r \in {"item", "parent"}
        THEN ByPath("getFileMetadata", UriOfRole(op, r).authority,
                    ParsedPath(UriOfRole(op, r)))
        ELSE CASE op.kind = "stat" -> ByPath("getFileMetadata", driveId, ParsedPath(op.uri))
               [] op.kind = "readFile" -> ByPath("downloadFile", driveId, ParsedPath(op.uri))
               [] op.kind = "writeFile" -> ByPath("saveFile", driveId, ParsedPath(op.uri))
               [] op.kind = "delete" -> ByPath("delete", driveId, ParsedPath(op.uri))
               [] op.kind = "readDirectory" ->
                     ById("getNestedChildren", driveId, op.ids["item"], "", "")
               [] op.kind = "createDirectory" ->
                     ById("createFolder", driveId, op.ids["parent"], op.ids["parent"],
                          basename(op.uri))
               [] op.kind = "rename" ->
                     ById("move", driveId, op.ids["item"], op.ids["parent"], basename(op.to))
               [] op.kind = "copy" ->
                     ById("copy", driveId, op.ids["item"], op.ids["parent"], basename(op.to))
               [] OTHER -> NoCall

\* `client.delete(driveId, path);` in the provider: the promise is dropped
DeleteIsAwaited == FALSE

\* a part issues its remote call; delete returns without awaiting it
Issue(op, r) ==
    LET sent == [op EXCEPT !.task[r] = "remote", !.issued = Append(@, CallOf(op, r))]
    IN  IF op.kind = "delete" /\ r = "final" /\ ~DeleteIsAwaited
        THEN Resolve(sent, <<>>)
        ELSE sent

\* a part that awaits demandForFs() goes on when the token promise is settled
StepRole(op, r, sess) ==
    IF op.task[r] # "session" THEN op
    ELSE IF sess = "resolved" THEN Issue(op, r)
    ELSE IF sess = "rejected"
         THEN Reject([op EXCEPT !.task[r] = "failed"], SessionError)
    ELSE op

Advance(op, sess) ==
    StepRole(StepRole(StepRole(op, "item", sess), "parent", sess), "final", sess)

\* the operation from its call to its first await
Begin(kind, uri, to) ==
    LET base == [NoOp EXCEPT !.kind = kind, !.uri = uri, !.to = to]
    IN  IF parseUriThrows(uri) THEN Reject(base, UnsupportedScheme(uri))
        ELSE CASE kind \in {"stat", "readFile", "writeFile", "delete"} ->
                     [base EXCEPT !.task["final"] = "session"]
               [] kind = "readDirectory" -> [base EXCEPT !.task["item"] = "session"]
               [] kind = "createDirectory" -> [base EXCEPT !.task["parent"] = "session"]
               [] OTHER ->
                     IF parseUriThrows(to)
                     THEN Reject([base EXCEPT !.task["item"] = "session",
                                              !.task["parent"] = "failed"],
                                 UnsupportedScheme(parentUri(to)))
                     ELSE [base EXCEPT !.task["item"] = "session",
                                       !.task["parent"] = "session"]

\* an operation that goes on after the first resolution
ReadyForFinal_First(op) == TRUE

\* both id resolutions an operation needs have succeeded
ReadyForFinal(op) == \A r \in {"item", "parent"} : op.task[r] \in {"none", "done"}

\* readDirectory: `children.value.map(...)` on the response of the one call
EntriesOfPage(page) ==
    [i \in 1..Len(page) |->
        <<page[i].name, IF page[i].folder THEN "Directory" ELSE "File">>]

\* a client.delete that rethrows a 404
Swallows_Never(e) == FALSE

\* client.delete: `if (!ResponseError.is(e, 404)) throw e;`
Swallows(e) == ResponseErrorIs(e, 404)

\* the remote call of a part settles with a status (and, for a children
\* listing, with the first page of the listing the remote holds)
Answer(op, r, status, feed) ==
    LET e == ResponseError(status, CallOf(op, r))
    IN  IF status = 200
        THEN IF r \in {"item", "parent"}
             THEN LET got == [op EXCEPT !.task[r] = "done",
                                        !.ids[r] = IdOf(CallOf(op, r).target)]
                  IN  IF got.outcome.state = "pending" /\ ReadyForFinal(got)
                      THEN Issue(got, "final")
                      ELSE got
             ELSE LET done == [op EXCEPT !.task["final"] = "done"]
                  IN  IF op.kind = "readDirectory"
                      THEN Resolve([done EXCEPT !.listing = feed], EntriesOfPage(feed[1]))
                      ELSE Resolve(done, <<>>)
        ELSE LET failed == [op EXCEPT !.task[r] = "failed"]
             IN  IF r \in {"item", "parent"}
                 THEN Reject(failed, MapNotFound(e, UriOfRole(op, r)))
                 ELSE CASE op.kind \in {"stat", "readDirectory", "readFile"} ->
                              Reject(failed, MapNotFound(e, op.uri))
                        [] op.kind = "delete" ->
                              IF Swallows(e) THEN Resolve(failed, <<>>) ELSE Reject(failed, e)
                        [] OTHER -> Reject(failed, e)

\* the error of a client.delete nobody awaits
Unhandled(op, r, status) ==
    LET e == ResponseError(status, CallOf(op, r))
    IN  IF /\ op.kind = "delete" /\ r = "final" /\ status # 200
           /\ ~Swallows(e) /\ op.outcome.state # "pending"
        THEN {e} ELSE {}

(***************************************************************************)
(* ClientProvider: the token acquisition settles, and every demandForFs()  *)
(* that awaits it continues.                                               *)
(***************************************************************************)
getSessionSettles(ok) ==
    /\ session = "pending"
    /\ session' = IF ok THEN "resolved" ELSE "rejected"
    /\ pc' = [l \in LoopIds |->
                IF pc[l] = "demand" THEN (IF ok THEN "baseline" ELSE "FAILED") ELSE pc[l]]
    /\ inflight' = [l \in LoopIds |->
                IF pc[l] = "demand" /\ ok THEN BaselineRoute(l, drive[l]) ELSE inflight[l]]
    /\ exit' = [l \in LoopIds |-> IF pc[l] = "demand" /\ ~ok THEN "throw" ELSE exit[l]]
    /\ drive' = [l \in LoopIds |-> IF pc[l] = "demand" /\ ~ok THEN "" ELSE drive[l]]
    /\ ops' = [o \in OpIds |-> Advance(ops[o], session')]
    /\ UNCHANGED <<watcher, handles, requests, remote, cancelled, results, response>>
    /\ UNCHANGED <<currentDate, pages, received, fired, lastFire, sleeps>>
    /\ UNCHANGED <<store, unhandled, walk>>

(***************************************************************************)
(* OneDriveClient.watch: the polling loop.                                 *)
(***************************************************************************)
\* the entries of the first n pages of a feed, in page order
RECURSIVE FeedValue(_, _)
FeedValue(feed, n) == IF n = 0 THEN <<>> ELSE FeedValue(feed, n - 1) \o feed[n]

\* the pages the remote may return next: the next page of a feed that began
\* with the pages received so far; it ends with a next-page link, or, if it
\* is the feed's last page, with the delta link
PagesFor(l) ==
    UNION { IF Len(f) > pages[l] + 1
            THEN {[value |-> f[pages[l] + 1], nextLink |-> NextLink, deltaLink |-> NoLink]}
            ELSE {[value |-> f[pages[l] + 1], nextLink |-> NoLink, deltaLink |-> c] :
                     c \in remote.links}
          : f \in {g \in remote.feeds :
                     Len(g) > pages[l] /\ FeedValue(g, pages[l]) = response[l].value} }

\* a loadDelta that puts the entries of a later page before those it has
MergePage_Prepends(l, page) ==
    IF pages[l] = 0 THEN page
    ELSE [value     |-> page.value \o response[l].value,
          deltaLink |-> page.deltaLink,
          nextLink  |-> page.nextLink]

\* loadDelta: `response` after one more page
MergePage(l, page) ==
    IF pages[l] = 0 THEN page
    ELSE [value     |-> response[l].value \o page.value,
          deltaLink |-> page.deltaLink,
          nextLink  |-> page.nextLink]

\* a provider that hands over the events of a round one by one, and goes on
\* after the first
fire_FirstEventOnly(l, changes) ==
    /\ fired' = [fired EXCEPT ![l] = @ + 1]
    /\ lastFire' = [loop |-> l,
                    events |-> FileChangeEvents(drive[l],
                                  SubSeq(changes, 1, IF Len(changes) > 0 THEN 1 ELSE 0))]

\* changeEmitter.fire(changes.map(...)) in the for-await body of the provider
fire(l, changes) ==
    /\ fired' = [fired EXCEPT ![l] = @ + 1]
    /\ lastFire' = [loop |-> l, events |-> FileChangeEvents(drive[l], changes)]

\* a loop that yields the baseline's items as a first batch
AfterBaseline_Emits(l, snapshot) ==
    IF cancelled[l]
    THEN Ends(l, "STOPPED", "loop condition") /\ UNCHANGED lastFire
    ELSE /\ results' = [results EXCEPT ![l] = snapshot]
         /\ pc' = [pc EXCEPT ![l] = "sleep"]
         /\ fire(l, ChangesOf(snapshot))
         /\ UNCHANGED <<exit, drive, sleeps>>

\* `let results = await loadDelta(...)`, then the loop's first condition
AfterBaseline(l, snapshot) ==
    IF cancelled[l]
    THEN Ends(l, "STOPPED", "loop condition") /\ UNCHANGED lastFire
    ELSE /\ results' = [results EXCEPT ![l] = snapshot]
         /\ pc' = [pc EXCEPT ![l] = "sleep"]
         /\ UNCHANGED <<exit, drive, sleeps, fired, lastFire>>

\* a loop that does not look at its token after the poll
CancelledAfterPoll_Unchecked(l) == FALSE

\* `if (ct.isCancellationRequested) return;` after `await loadDelta(results.next)`
CancelledAfterPoll(l) == cancelled[l]

\* the rest of a round: classify, yield the batch to the provider, which fires
\* it, keep the snapshot and start the next sleep
AfterPoll(l, next) ==
    IF CancelledAfterPoll(l)
    THEN Ends(l, "STOPPED", "after poll") /\ UNCHANGED lastFire
    ELSE /\ fire(l, ChangesOf(next))
         /\ results' = [results EXCEPT ![l] = next]
         /\ pc' = [pc EXCEPT ![l] = "sleep"]
         /\ UNCHANGED <<exit, drive, sleeps>>

\* a page of the feed arrives (fetch and json succeed)
loadDeltaPage(l, page, dateHeader, now) ==
    /\ pc[l] \in {"baseline", "poll"}
    /\ LET merged == MergePage(l, page)
           date   == IF pages[l] = 0 THEN dateHeader ELSE currentDate[l]
           log    == Append(received[l], [page |-> page, date |-> dateHeader])
       IN  IF merged.nextLink # NoLink
           THEN /\ response' = [response EXCEPT ![l] = merged]
                /\ received' = [received EXCEPT ![l] = log]
                /\ currentDate' = [currentDate EXCEPT ![l] = date]
                /\ pages' = [pages EXCEPT ![l] = @ + 1]
                /\ inflight' = [inflight EXCEPT ![l] = <<merged.nextLink>>]
                /\ UNCHANGED <<pc, results, drive, fired, lastFire, sleeps, exit>>
           ELSE /\ response' = [response EXCEPT ![l] = NoResponse]
                /\ currentDate' = [currentDate EXCEPT ![l] = 0]
                /\ pages' = [pages EXCEPT ![l] = 0]
                /\ inflight' = [inflight EXCEPT ![l] = NoRoute]
                /\ IF pc[l] = "baseline"
                   THEN AfterBaseline(l, DeltaResultInteractor(merged, date, now))
                   ELSE AfterPoll(l, DeltaResultInteractor(merged, date, now))
                /\ received' = [received EXCEPT ![l] = IF pc'[l] \in Terminal
                                                       THEN NoPages ELSE log]
    /\ UNCHANGED <<providerVars, fsVars, cancelled, walk>>

\* a remote call of loadDelta fails: fetch throws, the generator ends, and the
\* promise of the provider's then() is rejected with nobody listening
fetchFails(l) ==
    /\ pc[l] \in {"baseline", "poll"}
    /\ Ends(l, "FAILED", "throw")
    /\ response' = [response EXCEPT ![l] = NoResponse]
    /\ currentDate' = [currentDate EXCEPT ![l] = 0]
    /\ pages' = [pages EXCEPT ![l] = 0]
    /\ inflight' = [inflight EXCEPT ![l] = NoRoute]
    /\ received' = [received EXCEPT ![l] = NoPages]
    /\ UNCHANGED <<providerVars, fsVars, cancelled, lastFire, walk>>

\* the interval timer of the sleep expires; the loop checks its token and
\* issues the poll of the round
timeout(l) ==
    /\ pc[l] = "sleep"
    /\ sleeps[l] < MaxRounds
    /\ IF cancelled[l]
       THEN /\ Ends(l, "STOPPED", "after sleep")
            /\ UNCHANGED inflight
       ELSE /\ pc' = [pc EXCEPT ![l] = "poll"]
            /\ sleeps' = [sleeps EXCEPT ![l] = @ + 1]
            /\ inflight' = [inflight EXCEPT ![l] = <<results[l].next>>]
            /\ UNCHANGED <<exit, results, drive, fired>>
    /\ received' = [received EXCEPT ![l] = NoPages]
    /\ UNCHANGED <<providerVars, fsVars, cancelled, response, currentDate, pages, lastFire>>
    /\ UNCHANGED walk

HostCall == (\E uri \in Uris : watch(uri)) \/ (\E h \in HandleIds : dispose(h))

RemoteSettles(l) ==
    \/ /\ pc[l] \in {"baseline", "poll"}
       /\ \E page \in PagesFor(l), dateHeader \in remote.dates, now \in Clock :
             loadDeltaPage(l, page, dateHeader, now)
    \/ fetchFails(l)

Next ==
    \/ HostCall
    \/ \E ok \in BOOLEAN : getSessionSettles(ok)
    \/ \E l \in LoopIds : RemoteSettles(l)
    \/ \E l \in LoopIds : timeout(l)

Spec == Init /\ [][Next]_vars

\* every remote call in flight, the token acquisition and the timer complete
LiveInit == InitWith(PlainRemote) /\ walk = NoWalk

LiveSpec ==
    /\ LiveInit /\ [][Next]_vars
    /\ WF_vars(\E ok \in BOOLEAN : getSessionSettles(ok))
    /\ \A l \in LoopIds : WF_vars(RemoteSettles(l)) /\ WF_vars(timeout(l))

(***************************************************************************)
(* The runs of one polling loop against the rich remote: watch() is called *)
(* once and its handle is kept.                                            *)
(***************************************************************************)
RoundInit == InitWith(RichRemote) /\ walk = NoWalk

RoundNext ==
    \/ \E uri \in Uris : handles = <<>> /\ watch(uri)
    \/ \E ok \in BOOLEAN : getSessionSettles(ok)
    \/ \E l \in LoopIds : RemoteSettles(l)
    \/ \E l \in LoopIds : timeout(l)

RoundSpec == RoundInit /\ [][RoundNext]_vars

(***************************************************************************)
(* The host calls a file system operation; the remote answers a call of    *)
(* an operation; the host lets go of an operation that has settled.        *)
(***************************************************************************)
IsPrefix(a, b) == Len(a) <= Len(b) /\ SubSeq(b, 1, Len(a)) = a

\* the statuses the remote may answer a call with: calls addressed by path
\* find the item or not; calls addressed by id may also meet what other
\* clients did to the drive; any call may fail on the server
StatusesFor(call) ==
    IF call.name \in {"getFileMetadata", "downloadFile", "delete"}
    THEN (IF call.target \in store THEN {200} ELSE {404}) \cup {500}
    ELSE {200, 404, 500}

invoke(o, kind, uri, to) ==
    /\ ops[o].kind = "none"
    /\ session' = IF parseUriThrows(uri) THEN session ELSE getSession
    /\ requests' = requests + IF parseUriThrows(uri) THEN 0 ELSE Requested
    /\ ops' = [ops EXCEPT ![o] = Advance(Begin(kind, uri, to), session')]
    /\ UNCHANGED <<watcher, handles, remote, store, unhandled, loopVars, observedVars>>
    /\ UNCHANGED walk

remoteAnswers(o, r, status, feed) ==
    /\ ops[o].task[r] = "remote"
    /\ status \in StatusesFor(CallOf(ops[o], r))
    /\ ops' = [ops EXCEPT ![o] =
                  [Answer(ops[o], r, status, feed) EXCEPT
                      !.replies = Append(@, [role |-> r, status |-> status])]]
    /\ store' = IF CallOf(ops[o], r).name = "delete" /\ status = 200
                THEN {p \in store : ~IsPrefix(CallOf(ops[o], r).target, p)}
                ELSE store
    /\ unhandled' = unhandled \cup Unhandled(ops[o], r, status)
    /\ UNCHANGED <<providerVars, loopVars, observedVars, walk>>

release(o) ==
    /\ ops[o].outcome.state # "pending"
    /\ \A r \in Roles : ops[o].task[r] \notin {"session", "remote"}
    /\ ops' = [ops EXCEPT ![o] = NoOp]
    /\ UNCHANGED <<providerVars, store, unhandled, loopVars, observedVars, walk>>

OperationCall ==
    \E o \in OpIds, kind \in Kinds, uri \in FsUris :
        \/ kind \in {"rename", "copy"} /\ \E to \in Destinations : invoke(o, kind, uri, to)
        \/ kind \notin {"rename", "copy"} /\ invoke(o, kind, uri, NoUri)

OperationSettles ==
    \E o \in OpIds, r \in Roles, status \in {200, 404, 500}, feed \in ChildrenFeeds :
        remoteAnswers(o, r, status, feed)

FsInit == InitWith(PlainRemote) /\ walk = NoWalk

FsNext ==
    \/ OperationCall
    \/ OperationSettles
    \/ \E o \in OpIds : release(o)
    \/ \E ok \in BOOLEAN : getSessionSettles(ok)
    \/ \E uri \in Uris : handles = <<>> /\ watch(uri)

FsSpec == FsInit /\ [][FsNext]_vars

(***************************************************************************)
(* `[...next].map(value => next.getPathForItem(value) ...)` of one round,   *)
(* call by call: the items of the snapshot are mapped in the Map's order,   *)
(* and every call of getPathForItem is a step.  The snapshots are those    *)
(* the feeds of up to MaxItems entries over PathPool make; some hold       *)
(* parent ids that are absent, and some hold parent ids that form a cycle. *)
(***************************************************************************)
ItemSub    == DriveItem("F2", "sub", FALSE, FALSE, 1, ParentById("F1"))
ItemC      == DriveItem("I3", "c.txt", FALSE, FALSE, 1, ParentById("F2"))
ItemOrphan == DriveItem("I4", "orphan.txt", FALSE, FALSE, 1, ParentById("X"))
ItemLoopA  == DriveItem("L1", "la", FALSE, FALSE, 1, ParentById("L2"))
ItemLoopB  == DriveItem("L2", "lb", FALSE, FALSE, 1, ParentById("L1"))

PathPool ==
    {ItemRoot, ItemDocs, ItemBNew, ItemSub, ItemC, ItemOrphan, ItemLoopA, ItemLoopB}

Snapshots ==
    { DeltaResultInteractor([value |-> v, nextLink |-> NoLink, deltaLink |-> "c1"], 2, 2) :
        v \in UNION { [1..n -> PathPool] : n \in 0..MaxItems } }

\* the call stack the engine allows to getPathForItem: deeper than any chain
\* of distinct items of a snapshot
MaxDepth == MaxItems + 2

\* the item reaches `this.results.get(item.parentReference.id)`
IdOnly(item) ==
    /\ ~item.root
    /\ item.parentReference.present
    /\ ~item.parentReference.hasPath

\* a lookup that returns the item it was asked the parent of
parentItem_Self(snapshot, item) ==
    CHOOSE i \in 1..Len(snapshot.items) : snapshot.items[i].id = item.id

\* `const parentItem = this.results.get(item.parentReference.id)`
parentItem(snapshot, item) ==
    CHOOSE i \in 1..Len(snapshot.items) : snapshot.items[i].id = item.parentReference.id

\* the path of an item that needs no lookup
PathWithoutLookup(item) ==
    IF item.root THEN <<"">>
    ELSE IF ~item.parentReference.present THEN <<item.name>>
    ELSE IF item.parentReference.path = driveRootPrefix THEN <<item.name>>
    ELSE SliceAfterPrefix(item.parentReference.path) \o <<item.name>>

\* the change the map's callback returns for an item once its path is known
ChangeWithPath(value, path) ==
    IF value.deleted THEN [type |-> "Deleted", path |-> path]
    ELSE IF DateObjectIsTruthy(value.createdDateTime)
         THEN [type |-> "Created", path |-> path]
         ELSE [type |-> "Changed", path |-> path]

\* the outermost getPathForItem returned `path`: the callback returns, and
\* after the last item the batch is yielded
Mapped(path) ==
    [walk EXCEPT !.changes = Append(@, ChangeWithPath(walk.results.items[walk.index], path)),
                 !.pc = IF walk.index = Len(walk.results.items) THEN "yielded" ELSE "mapping",
                 !.at = 0, !.names = <<>>]

\* the map's callback is called for the next item of the snapshot, or, for a
\* snapshot without items, the empty batch is yielded
mapNext ==
    /\ walk.pc = "mapping"
    /\ walk' = IF Len(walk.results.items) = 0
               THEN [walk EXCEPT !.pc = "yielded"]
               ELSE [walk EXCEPT !.pc = "resolving", !.index = @ + 1, !.at = walk.index + 1,
                                 !.names = <<>>, !.lookups = 0]
    /\ UNCHANGED <<providerVars, fsVars, loopVars, observedVars>>

\* one call of getPathForItem, for the item at `at`, with the names of the
\* callers' items waiting to be appended
getPathForItemCall ==
    /\ walk.pc = "resolving"
    /\ LET item == walk.results.items[walk.at]
       IN  walk' =
             IF ~IdOnly(item) THEN Mapped(PathWithoutLookup(item) \o walk.names)
             ELSE IF ~MapHas(walk.results, item.parentReference.id)
                  THEN [Mapped(<<item.name>> \o walk.names) EXCEPT !.lookups = @ + 1]
             ELSE IF Len(walk.names) + 1 = MaxDepth
                  THEN [walk EXCEPT !.pc = "thrown", !.lookups = @ + 1]
             ELSE [walk EXCEPT !.at = parentItem(walk.results, item),
                               !.names = <<item.name>> \o @,
                               !.lookups = @ + 1]
    /\ UNCHANGED <<providerVars, fsVars, loopVars, observedVars>>

PathInit ==
    /\ InitWith(PlainRemote)
    /\ \E snapshot \in Snapshots : walk = [NoWalk EXCEPT !.pc = "mapping", !.results = snapshot]

PathNext == mapNext \/ getPathForItemCall

\* the map runs inside one turn of the event loop: it is never left half-way
PathSpec == PathInit /\ [][PathNext]_vars /\ WF_vars(PathNext)

(***************************************************************************)
(* Vocabulary of the properties.                                           *)
(***************************************************************************)
LiveHandles == {h \in 1..Len(handles) : ~handles[h]}
Uncancelled == {l \in LoopIds : Started(l) /\ ~cancelled[l]}
Running(l)  == pc[l] \in {"demand", "baseline", "sleep", "poll"}
Fires(l)    == fired'[l] = fired[l] + 1

\* the entries of the pages of a log, in the order the remote returned them
EntriesOf(log) == FeedValue([i \in 1..Len(log) |-> log[i].page.value], Len(log))

(***************************************************************************)
(* C1.  Single polling loop under fan-in.  Whatever the interleaving of    *)
(* watch() and dispose(): while at least one handle is undisposed there is *)
(* exactly one loop whose signal is not cancelled, and none otherwise; it  *)
(* has not returned (it runs, or a remote failure ended it); a loop is     *)
(* started only by the watch() that makes the first live handle, and       *)
(* cancelled only by the dispose() that releases the last one, so          *)
(* releasing any other handle leaves it as it is; and a batch is only ever *)
(* delivered by the loop of the current watcher, never by a loop that a    *)
(* teardown cancelled.                                                     *)
(***************************************************************************)
C1_SinglePollLoop ==
    /\ [](Cardinality(Uncancelled) = IF LiveHandles # {} THEN 1 ELSE 0)
    /\ [](\A l \in Uncancelled : pc[l] # "STOPPED")
    /\ [][\A l \in LoopIds :
            /\ (~Started(l) /\ pc'[l] # "idle")
                  => LiveHandles = {} /\ Cardinality(LiveHandles') = 1
            /\ (~cancelled[l] /\ cancelled'[l])
                  => Cardinality(LiveHandles) = 1 /\ LiveHandles' = {}
            /\ (LiveHandles' # {} /\ LiveHandles # {})
                  => cancelled'[l] = cancelled[l] /\ (pc'[l] = "idle") = (pc[l] = "idle")
            /\ Fires(l) => watcher.present /\ watcher.cts = l /\ ~cancelled[l]]_vars

\* two live handles share the second loop while the first, cancelled by a full
\* teardown, still has a remote call in flight
C1_Witness ==
    /\ Cardinality(LiveHandles) = 2
    /\ cancelled[1] /\ Running(1)
    /\ ~cancelled[2] /\ Running(2)

(***************************************************************************)
(* C2.  A watch session per drive.  A watch() for a uri of this file       *)
(* system on drive D leaves a session whose loop polls D: it starts one,   *)
(* or joins the one that exists for D, also while a session for another    *)
(* drive is active.                                                        *)
(***************************************************************************)
C2_SessionPerDrive ==
    [][\A uri \in Uris :
          (uri.scheme = scheme /\ watch(uri))
             => /\ watcher'.present
                /\ ~cancelled'[watcher'.cts]
                /\ pc'[watcher'.cts] \notin Terminal
                      => drive'[watcher'.cts] = uri.authority]_vars

(***************************************************************************)
(* C3.  No events after cancellation.  Once the cancellation of a loop has *)
(* been requested, whether during the token acquisition, the baseline      *)
(* fetch, the sleep or a poll fetch in flight, the loop delivers no batch: *)
(* the result of the poll fetch that was in flight is discarded (it is     *)
(* neither kept as the snapshot nor notified), and the loop ends.          *)
(***************************************************************************)
C3_NoEventsAfterCancel ==
    [][\A l \in LoopIds :
          cancelled[l] =>
             /\ ~Fires(l)
             /\ (pc[l] = "poll" /\ pc'[l] # "poll")
                   => /\ pc'[l] \in Terminal
                      /\ results'[l] = NoResults
                      /\ lastFire' = lastFire]_vars

\* a loop cancelled while its poll fetch was in flight has received the feed
\* and returned without delivering it
C3_Witness ==
    \E l \in LoopIds :
        /\ cancelled[l] /\ pc[l] = "STOPPED" /\ exit[l] = "after poll"
        /\ lastFire.loop = l

(***************************************************************************)
(* C4.  The loop stops after the last release.  A cancelled loop           *)
(* eventually ends (it returns, or the remote call in flight fails), given *)
(* that every remote call, the token acquisition and the timer complete;   *)
(* a loop that has ended never runs again; and a cancellation that arrives *)
(* during the sleep ends the loop in that very step, without issuing the   *)
(* poll fetch of the round.                                                *)
(***************************************************************************)
C4_StopsAfterLastRelease ==
    /\ \A l \in LoopIds : cancelled[l] ~> (pc[l] \in Terminal)
    /\ [][\A l \in LoopIds :
            /\ pc[l] \in Terminal => pc'[l] = pc[l]
            /\ (pc[l] = "sleep" /\ ~cancelled[l] /\ cancelled'[l])
                  => /\ pc'[l] = "STOPPED"
                     /\ inflight'[l] = NoRoute /\ inflight[l] = NoRoute]_vars

\* a loop that had delivered a round was cancelled in the sleep of the next,
\* and returned at the check that follows the sleep
C4_Witness ==
    \E l \in LoopIds :
        /\ cancelled[l] /\ pc[l] = "STOPPED" /\ exit[l] = "after sleep"
        /\ lastFire.loop = l

(***************************************************************************)
(* C5.  Cancellation and re-subscription.  A signal is cancelled exactly   *)
(* in the step that drops the reference count to zero (the watcher record  *)
(* goes), and it is the signal of that watcher.  The watch() that follows  *)
(* a full teardown makes a new loop with a new, uncancelled signal, no     *)
(* snapshot and no cursor, whose first remote call is the full delta feed  *)
(* of the drive; a loop that has ended is never resumed and a cancelled    *)
(* signal never reset.                                                     *)
(***************************************************************************)
C5_FreshEngine ==
    /\ [][/\ (watcher.present /\ ~watcher'.present)
               <=> (\E l \in LoopIds : ~cancelled[l] /\ cancelled'[l])
          /\ \A l \in LoopIds :
               /\ (~cancelled[l] /\ cancelled'[l])
                     => watcher.cts = l /\ watcher.count = 1
               /\ cancelled[l] => cancelled'[l]
               /\ pc[l] \in Terminal => pc'[l] = pc[l]
          /\ (~watcher.present /\ watcher'.present)
               => LET l == watcher'.cts
                  IN  /\ pc[l] = "idle" /\ pc'[l] \in {"demand", "baseline", "FAILED"}
                      /\ pc'[l] = "FAILED" => session = "rejected"
                      /\ ~cancelled'[l]
                      /\ results'[l] = NoResults /\ fired'[l] = 0]_vars
    /\ [](\A l \in LoopIds :
            /\ pc[l] \in {"demand", "baseline"} => results[l] = NoResults
            /\ (pc[l] = "baseline" /\ pages[l] = 0)
                  => inflight[l] = <<"drives", drive[l], "items", "root", "delta">>)

\* after a full teardown of a loop that had retained a cursor, the loop of a
\* later watch() has its baseline fetch in flight
C5_Witness ==
    /\ cancelled[1] /\ results[1].valid
    /\ watcher.present /\ watcher.cts = 2
    /\ pc[2] = "baseline" /\ pages[2] = 0

(***************************************************************************)
(* C6.  Round atomicity and sequencing.  Within one loop every batch       *)
(* holds all the events of its round, one per entry of the round's         *)
(* snapshot; a batch is delivered in the step that ends the poll of its    *)
(* round; and whenever the loop sleeps or polls for round n+1, the batches *)
(* of all n rounds before it have been delivered.                          *)
(***************************************************************************)
C6_RoundAtomicity ==
    /\ [](\A l \in LoopIds :
            /\ pc[l] = "sleep" => fired[l] = sleeps[l]
            /\ pc[l] = "poll"  => fired[l] + 1 = sleeps[l])
    /\ [][\A l \in LoopIds :
            Fires(l) =>
               /\ fired'[l] = fired[l] + 1
               /\ pc[l] = "poll" /\ pc'[l] = "sleep"
               /\ lastFire'.loop = l
               /\ Len(lastFire'.events) = Len(results'[l].items)]_vars

\* a loop has delivered the batches of two rounds, the second of more than one
\* event, and sleeps before the third
C6_Witness ==
    \E l \in LoopIds :
        /\ pc[l] = "sleep" /\ fired[l] = 2 /\ sleeps[l] = 2
        /\ lastFire.loop = l /\ Len(lastFire.events) = 2

(***************************************************************************)
(* C7.  The baseline is not emitted.  A loop delivers no batch before its  *)
(* first sleep has ended and its first poll feed has been received: while  *)
(* it acquires the token or fetches the baseline, and while it sleeps      *)
(* after a baseline that had items, nothing has been delivered.            *)
(***************************************************************************)
C7_BaselineNotEmitted ==
    /\ [](\A l \in LoopIds :
            /\ pc[l] \in {"idle", "demand", "baseline"} => fired[l] = 0
            /\ (pc[l] = "sleep" /\ sleeps[l] = 0) => fired[l] = 0)
    /\ [][\A l \in LoopIds :
            Fires(l) => pc[l] = "poll" /\ sleeps[l] >= 1 /\ results[l].valid]_vars

\* a loop sleeps after a baseline snapshot with items, and no batch was fired
C7_Witness ==
    \E l \in LoopIds :
        /\ pc[l] = "sleep" /\ sleeps[l] = 0
        /\ Len(results[l].items) > 0
        /\ fired[l] = 0 /\ lastFire = NoFire

(***************************************************************************)
(* C8.  Classification.  In a delivered batch, the event of an entry that  *)
(* is not deleted is Created if the entry's createdDateTime is later than  *)
(* the timestamp of the previous round's snapshot, and Changed otherwise.  *)
(***************************************************************************)
C8_CreatedOnlyIfNew ==
    [][\A l \in LoopIds :
          Fires(l) =>
             \A i \in 1..Len(results'[l].items) :
                ~results'[l].items[i].deleted =>
                   lastFire'.events[i].type =
                      IF isNew(results[l], results'[l].items[i])
                      THEN "Created" ELSE "Changed"]_vars

(***************************************************************************)
(* C9.  Path of a Deleted event.  In a delivered batch, the event of a     *)
(* deleted entry is a Deleted event, and if the previous round's snapshot  *)
(* holds the item, the event carries the path the item resolves to in that *)
(* snapshot (a.txt, deleted from under Docs, is reported as Docs/a.txt).   *)
(***************************************************************************)
C9_DeletedLastKnownPath ==
    [][\A l \in LoopIds :
          Fires(l) =>
             \A i \in 1..Len(results'[l].items) :
                LET value == results'[l].items[i]
                IN  value.deleted =>
                      /\ lastFire'.events[i].type = "Deleted"
                      /\ MapHas(results[l], value.id) =>
                           lastFire'.events[i].uri.path =
                              <<"">> \o getPathForItem(results[l], MapGet(results[l], value.id))]_vars

(***************************************************************************)
(* C10.  No notification for an empty round.  The provider never hands a   *)
(* batch without events to the host: after a poll whose delta feed is      *)
(* empty nothing is fired.                                                 *)
(***************************************************************************)
C10_NoEmptyNotification ==
    [][\A l \in LoopIds : Fires(l) => Len(lastFire'.events) > 0]_vars


(***************************************************************************)
(* C11.  Page order.  The batch of a round has one event per entry of the  *)
(* round's delta feed, in the order of the feed (pages as returned,        *)
(* entries as they stand in the page): the i-th event names the i-th       *)
(* entry (the root entry has no name in its path) and is Deleted exactly   *)
(* if that entry is a tombstone, also when an item id occurs more than     *)
(* once in the pages.                                                      *)
(***************************************************************************)
C11_PageOrder ==
    [][\A l \in LoopIds :
          Fires(l) =>
             LET value  == EntriesOf(received'[l])
                 events == lastFire'.events
             IN  /\ Len(events) = Len(value)
                 /\ \A i \in 1..Len(value) :
                       i <= Len(events) =>
                          /\ \/ value[i].root
                             \/ events[i].uri.path[Len(events[i].uri.path)]
                                   = value[i].name
                          /\ (events[i].type = "Deleted") = value[i].deleted]_vars


(***************************************************************************)
(* C12.  Path reconstruction.  In every batch, the path of the event of    *)
(* an item of the round's snapshot is: empty for the root item; for an     *)
(* item whose parent reference carries a path, the part of that path       *)
(* below /drive/root: followed by the name (the name alone directly under  *)
(* the root); for an item whose parent reference carries an id only, the   *)
(* path resolved for the parent item of the same snapshot followed by the  *)
(* name; and the name alone if the snapshot has no item of that id.        *)
(***************************************************************************)
C12_PathReconstruction ==
    [][\A l \in LoopIds :
          Fires(l) =>
             LET items   == results'[l].items
                 path(i) == Tail(lastFire'.events[i].uri.path)
                 below(p) == [k \in 1..(Len(p) - Len(driveRootPrefix)) |->
                                 p[k + Len(driveRootPrefix)]]
             IN  \A i \in 1..Len(items) :
                    LET item == items[i]
                        ref  == item.parentReference
                    IN  IF item.root THEN path(i) = <<"">>
                        ELSE IF ~ref.present THEN path(i) = <<item.name>>
                        ELSE IF ref.hasPath
                             THEN path(i) = below(ref.path) \o <<item.name>>
                        ELSE IF \E j \in 1..Len(items) : items[j].id = ref.id
                             THEN \A j \in 1..Len(items) :
                                     items[j].id = ref.id
                                        => path(i) = path(j) \o <<item.name>>
                             ELSE path(i) = <<item.name>>]_vars

\* a batch for the snapshot [root, Docs with the root's path as parent path,
\* b.txt with the id of Docs only]: b.txt is reported at /Docs/b.txt, and a
\* batch for a snapshot that lacks the parent reports the name alone
C12_Witness ==
    \E l \in LoopIds :
        /\ pc[l] = "sleep" /\ lastFire.loop = l
        /\ results[l].items = <<ItemRoot, ItemDocs, ItemBNew>>
        /\ lastFire.events[1].uri.path = <<"", "">>
        /\ lastFire.events[2].uri.path = <<"", "Docs">>
        /\ lastFire.events[3].uri.path = <<"", "Docs", "b.txt">>


(***************************************************************************)
(* C20.  Paging, cursor and timestamp.  Every remote call of a loadDelta   *)
(* after the first goes to the next-page link of the page before, until a  *)
(* page has none; the snapshot then holds the entries of the pages in the  *)
(* order they were returned, its cursor is the delta link of the last      *)
(* page and its timestamp the Date of the first response; and the poll of  *)
(* the next round starts at that cursor (the first loadDelta of a loop     *)
(* starts at the full feed of the drive).                                  *)
(***************************************************************************)
C20_PagingAndCursor ==
    \A l \in LoopIds :
       LET log  == received[l]
           last == log[Len(log)].page
       IN  /\ pc[l] = "sleep"
                => /\ Len(log) > 0
                   /\ \A i \in 1..Len(log) : (log[i].page.nextLink = NoLink) <=> (i = Len(log))
                   /\ results[l].items = MapOfValue(EntriesOf(log), Len(EntriesOf(log)))
                   /\ results[l].next = last.deltaLink
                   /\ log[1].date # 0 => results[l].lastUpdated = log[1].date
           /\ pc[l] \in {"baseline", "poll"}
                => /\ \A i \in 1..Len(log) : log[i].page.nextLink # NoLink
                   /\ inflight[l] = IF Len(log) > 0 THEN <<last.nextLink>>
                                    ELSE IF pc[l] = "poll" THEN <<results[l].next>>
                                    ELSE <<"drives", drive[l], "items", "root", "delta">>

\* the feed of a poll round came in two pages with different Date headers: the
\* snapshot has the entries of both in order, the Date of the first response
\* and the delta link of the second page
C20_Witness ==
    \E l \in LoopIds :
        /\ pc[l] = "sleep" /\ sleeps[l] = 1 /\ Len(received[l]) = 2
        /\ received[l][1].date = 2 /\ received[l][2].date = 4
        /\ received[l][2].page.deltaLink = "c2"
        /\ results[l].items = <<ItemDocs, ItemBNew>>
        /\ results[l].lastUpdated = 2 /\ results[l].next = "c2"

(***************************************************************************)
(* C13: delete on a path the remote does not hold, answered with 404,      *)
(* completes without error, the first time and when repeated: the          *)
(* operation resolves, the 404 surfaces nowhere (neither as the outcome    *)
(* nor as a rejection nobody handles), and the remote item set stays as    *)
(* it was.                                                                 *)
(***************************************************************************)
LastReply(op) == op.replies[Len(op.replies)]

DeleteAnswered(o, status) ==
    /\ ops[o].kind = "delete" /\ ops[o].task["final"] = "remote"
    /\ ops'[o].kind = "delete" /\ ops'[o].task["final"] # "remote"
    /\ LastReply(ops'[o]).status = status

C13_IdempotentDelete ==
    [][\A o \in OpIds :
          DeleteAnswered(o, 404) /\ ParsedPath(ops[o].uri) \notin store =>
              /\ ops'[o].outcome = Resolved(<<>>)
              /\ unhandled' = unhandled
              /\ store' = store]_vars

\* a second delete of /Docs, after the first removed it, answered 404
C13_Witness ==
    \E o \in OpIds :
        /\ ops[o].kind = "delete" /\ ops[o].uri = UriDocs
        /\ <<"Docs">> \notin store
        /\ ops[o].replies = <<[role |-> "final", status |-> 404]>>
        /\ ops[o].outcome = Resolved(<<>>)
        /\ unhandled = {}

(***************************************************************************)
(* C14: delete propagates remote errors other than 404: when the DELETE    *)
(* call fails with another status, the operation returned to the host      *)
(* fails with that error; and the operation does not report completion     *)
(* while the DELETE call is still in flight.                               *)
(***************************************************************************)
C14_DeletePropagates ==
    [][\A o \in OpIds :
          /\ ops'[o].kind = "delete" /\ ops'[o].task["final"] = "remote" =>
                 ops'[o].outcome.state = "pending"
          /\ DeleteAnswered(o, 500) =>
                 ops'[o].outcome =
                     Rejected(ResponseError(500, CallOf(ops[o], "final")))]_vars

(***************************************************************************)
(* C15: every operation maps a 404 to the not-found error: for stat,       *)
(* readDirectory, readFile, writeFile, createDirectory, rename and copy,   *)
(* when any remote call of the operation (an id resolution or the final    *)
(* call) is answered 404 while the operation is pending, the operation     *)
(* fails with FileNotFound, never with the remote's own error.             *)
(***************************************************************************)
CallAnswered(o, r, status) ==
    /\ ops[o].task[r] = "remote" /\ ops'[o].task[r] # "remote"
    /\ ops'[o].kind = ops[o].kind
    /\ LastReply(ops'[o]) = [role |-> r, status |-> status]

C15_NotFoundMapping ==
    [][\A o \in OpIds, r \in Roles :
          /\ ops[o].kind \in Kinds \ {"delete"}
          /\ ops[o].outcome.state = "pending"
          /\ CallAnswered(o, r, 404)
          => /\ ops'[o].outcome.state = "rejected"
             /\ ops'[o].outcome.error.type = "FileNotFound"]_vars

(***************************************************************************)
(* C16: for stat, readDirectory and readFile: a remote error other than    *)
(* 404, from any step, reaches the host as the very error the call         *)
(* failed with; no remote call is issued twice; an outcome, once set,      *)
(* does not change (one error per failing call); for readDirectory a 404   *)
(* of the id resolution or of the children listing gives FileNotFound of   *)
(* the listed uri, and the children listing is not issued when the         *)
(* resolution failed.                                                      *)
(***************************************************************************)
ReadKinds == {"stat", "readDirectory", "readFile"}

NoDuplicates(seq) == \A i, j \in 1..Len(seq) : i # j => seq[i] # seq[j]

C16_ReadErrors ==
    [][\A o \in OpIds :
          ops[o].kind \in ReadKinds =>
              /\ \A r \in Roles :
                    /\ CallAnswered(o, r, 500) =>
                          ops'[o].outcome =
                              Rejected(ResponseError(500, CallOf(ops[o], r)))
                    /\ CallAnswered(o, r, 404) =>
                          ops'[o].outcome = Rejected(FileNotFound(ops[o].uri))
              /\ ops'[o].kind = ops[o].kind =>
                    /\ NoDuplicates(ops'[o].issued)
                    /\ Len(ops'[o].issued) <= IF ops[o].kind = "readDirectory" THEN 2 ELSE 1
                    /\ ops[o].outcome.state # "pending" =>
                          ops'[o].outcome = ops[o].outcome
                    /\ ops'[o].task["item"] = "failed" =>
                          \A i \in 1..Len(ops'[o].issued) :
                              ops'[o].issued[i].name # "getNestedChildren"]_vars

\* a listing whose children call failed with 500 after the id was resolved,
\* and one whose id resolution was answered 404
C16_Witness ==
    \E o \in OpIds :
        /\ ops[o].kind = "readDirectory" /\ ops[o].uri = UriDocs
        /\ ops[o].replies = <<[role |-> "item", status |-> 200],
                              [role |-> "final", status |-> 500]>>
        /\ ops[o].outcome = Rejected(ResponseError(500,
                                ById("getNestedChildren", "D1", "F1", "", "")))
        /\ Len(ops[o].issued) = 2

(***************************************************************************)
(* C17: readDirectory returns all the children of the folder: when the     *)
(* children listing of the remote has further pages, the entries of every  *)
(* page, in the order the server gives them, are in the one result the     *)
(* host receives.                                                          *)
(***************************************************************************)
C17_CompleteListing ==
    \A o \in OpIds :
        ops[o].kind = "readDirectory" /\ ops[o].outcome.state = "resolved" =>
            ops[o].outcome.value =
                EntriesOfPage(FeedValue(ops[o].listing, Len(ops[o].listing)))

(***************************************************************************)
(* C18: the token is requested lazily and at most once: whatever the       *)
(* operations and watch loops and their interleaving, no request is made   *)
(* before the first operation or loop that needs the token, one request    *)
(* is made in all, every later demand joins or reuses it (a settled        *)
(* acquisition never changes), and no remote call is issued without the    *)
(* token.                                                                  *)
(***************************************************************************)
NeedsToken(op) == op.kind # "none" /\ ~parseUriThrows(op.uri)

Mutating == {"move", "copy", "createFolder"}

MutatingCalls(op) == {i \in 1..Len(op.issued) : op.issued[i].name \in Mutating}

Resolutions(op) ==
    IF op.kind = "createDirectory" THEN {"parent"} ELSE {"item", "parent"}

ExpectedCall(op) ==
    LET parent == IdOf(ParsedPath(UriOfRole(op, "parent")))
        item   == IdOf(ParsedPath(op.uri))
    IN  CASE op.kind = "rename" -> ById("move", op.uri.authority, item, parent, basename(op.to))
          [] op.kind = "copy" -> ById("copy", op.uri.authority, item, parent, basename(op.to))
          [] OTHER -> ById("createFolder", op.uri.authority, parent, parent, basename(op.uri))

C19_ResolveThenAct ==
    [][\A o \in OpIds :
          LET op == ops'[o]
          IN  op.kind \in {"rename", "copy", "createDirectory"} =>
                /\ op.kind \in {"rename", "copy"} /\ ~parseUriThrows(op.to)
                   /\ op.issued # <<>> =>
                      /\ Len(op.issued) >= 2
                      /\ op.issued[1] = ByPath("getFileMetadata", "D1", ParsedPath(op.uri))
                      /\ op.issued[2] =
                             ByPath("getFileMetadata", "D1", ParsedPath(parentUri(op.to)))
                /\ Cardinality(MutatingCalls(op)) <= 1
                /\ \A i \in MutatingCalls(op) :
                      /\ i = Len(op.issued) /\ i = Cardinality(Resolutions(op)) + 1
                      /\ \A r \in Resolutions(op) : op.task[r] = "done"
                      /\ op.issued[i] = ExpectedCall(op)
                /\ (\E r \in Resolutions(op) : op.task[r] = "failed") =>
                      /\ MutatingCalls(op) = {}
                      /\ op.outcome.state = "rejected"
                /\ ops[o].kind = op.kind /\ ops[o].outcome.state # "pending" =>
                      op.outcome = ops[o].outcome]_vars

\* a rename of /Docs to /new.txt whose move call is in flight after both
\* resolutions succeeded
C19_Witness ==
    \E o \in OpIds :
        /\ ops[o].kind = "rename" /\ ops[o].uri = UriDocs /\ ops[o].to = UriNew
        /\ ops[o].task = [item |-> "done", parent |-> "done", final |-> "remote"]
        /\ ops[o].issued[3] = ById("move", "D1", "F1", "R", "new.txt")
        /\ ops[o].outcome.state = "pending"

(***************************************************************************)
(* C21: path resolution terminates on every snapshot whose id-only parent  *)
(* references are acyclic: for every item the lookups it takes are at      *)
(* most as many as the snapshot has items, the resolution never exhausts   *)
(* the stack, and the round's batch is delivered, with the paths           *)
(* getPathForItem gives, also when an ancestry cannot be resolved (a       *)
(* parent id the snapshot does not hold).                                  *)
(***************************************************************************)
\* the index of the item the id-only reference of item i leads to; 0 if none
ParentIndex(snapshot, i) ==
    IF i = 0 THEN 0
    ELSE IF IdOnly(snapshot.items[i]) /\ MapHas(snapshot, snapshot.items[i].parentReference.id)
         THEN CHOOSE j \in 1..Len(snapshot.items) :
                  snapshot.items[j].id = snapshot.items[i].parentReference.id
         ELSE 0

RECURSIVE Follow(_, _, _)
Follow(snapshot, i, n) ==
    IF n = 0 THEN i ELSE Follow(snapshot, ParentIndex(snapshot, i), n - 1)

Acyclic(snapshot) ==
    \A i \in 1..Len(snapshot.items) : Follow(snapshot, i, Len(snapshot.items)) = 0

C21_ResolutionTerminates ==
    /\ [](Acyclic(walk.results) =>
             /\ walk.lookups <= Len(walk.results.items)
             /\ walk.pc # "thrown")
    /\ Acyclic(walk.results) ~>
          (walk.pc = "yielded" /\ walk.changes = ChangesOf(walk.results))

\* a batch of three, delivered although the parent of orphan.txt and the
\* folder above sub are not in the snapshot; c.txt took two lookups
C21_Witness ==
    /\ walk.pc = "yielded"
    /\ walk.results.items = <<ItemOrphan, ItemSub, ItemC>>
    /\ walk.lookups = 2
    /\ walk.changes = << [type |-> "Created", path |-> <<"orphan.txt">>],
                         [type |-> "Created", path |-> <<"sub">>],
                         [type |-> "Created", path |-> <<"sub", "c.txt">>] >>

(***************************************************************************)
(* C22: an operation given a uri of another scheme fails with the          *)
(* unsupported-scheme error, issues no remote call and changes no watch    *)
(* state: for stat, readDirectory, readFile, writeFile, createDirectory    *)
(* and delete the uri, for rename and copy either of the two uris, and     *)
(* for watch the uri, with or without a watch session in place.            *)
(***************************************************************************)
ForeignUri(op) ==
    \/ parseUriThrows(op.uri)
    \/ op.kind \in {"rename", "copy"} /\ parseUriThrows(op.to)

C22_UnsupportedScheme ==
    [][/\ \A o \in OpIds :
             ops'[o].kind # "none" /\ ForeignUri(ops'[o]) =>
                 /\ ops'[o].outcome.state = "rejected"
                 /\ ops'[o].outcome.error.type = "Error"
                 /\ ops'[o].issued = <<>>
                 /\ UNCHANGED <<watcher, handles>>
       /\ \A uri \in Uris :
             parseUriThrows(uri) /\ watch(uri) =>
                 UNCHANGED <<watcher, handles, loopVars>>]_vars

(***************************************************************************)
(* C23: the reference count.  In every reachable state the watcher record  *)
(* exists exactly when a handle returned by watch() is undisposed, and     *)
(* its count is the number of undisposed handles (at least 1 while the     *)
(* record exists); disposing a handle that is already disposed changes     *)
(* neither the count nor the record, and cancels no loop, in particular    *)
(* not the loop a later watch() started.                                   *)
(***************************************************************************)
C23_ReferenceCount ==
    /\ [](watcher.present = (LiveHandles # {}))
    /\ [](watcher.present =>
             watcher.count = Cardinality(LiveHandles) /\ watcher.count >= 1)
    /\ [][\A h \in 1..Len(handles) :
             handles[h] /\ dispose(h) => UNCHANGED <<watcher, cancelled, pc>>]_vars

\* the first handle was disposed, which tore the first session down; a later
\* watch() started the second loop and two undisposed handles share it
C23_Witness ==
    /\ Len(handles) = 3 /\ handles[1] /\ ~handles[2] /\ ~handles[3]
    /\ watcher = [present |-> TRUE, count |-> 2, cts |-> 2]
    /\ cancelled[1] /\ ~cancelled[2]

(***************************************************************************)
(* C24: a loop that dies leaves the session behind.  When the loop of the  *)
(* watcher ends because the token acquisition or a remote delta call       *)
(* failed, nothing is delivered to the subscribers and the watcher record  *)
(* stays as it is; from then on a watch() only increments the count, no    *)
(* uncancelled loop runs and no batch is delivered, for as long as the     *)
(* record stays; the watch() that follows the disposal of every handle     *)
(* starts a fresh loop, with a token of its own and a count of 1.          *)
(***************************************************************************)
LoopDied == watcher.present /\ pc[watcher.cts] = "FAILED"

=============================================================================
